---- MODULE Spec2Model ----
(***************************************************************************)
(* A model of the Telegram relay bot: the line-oriented message parser     *)
(* (src/src/parser.rs), the per-chat history store (src/src/history.rs)    *)
(* and the update handlers of src/src/main.rs.                             *)
(*                                                                         *)
(* Text is a sequence of atoms.  An atom [c |-> ch, n |-> k] stands for k  *)
(* consecutive copies of the character ch; markup characters and the line  *)
(* terminator are always single atoms (n = 1), only the filler character   *)
(* "x" is run-length encoded, so that texts of MSG_MAX_LEN characters stay *)
(* small values.  The character count of a text is the sum of its runs.    *)
(***************************************************************************)
EXTENDS Integers, Sequences, FiniteSets, TLC

(***************************************************************************)
(* Program constants (parser.rs:7-9).                                      *)
(***************************************************************************)
MSG_CHUNK_LEN == 500
MSG_MAX_LEN == 4000

(***************************************************************************)
(* Bounds of the model.                                                    *)
(***************************************************************************)
MaxLines == 4

Ch(c) == [c |-> c, n |-> 1]
Run(k) == [c |-> "x", n |-> k]
NL == Ch("\n")
\* The backtick character, and the fence marker made of three of them.
Tick == Ch("tick")
CODE_GUARD == <<Tick, Tick, Tick>>

\* The lines the line stream may deliver: short and long filler lines (one
\* of them longer than MSG_MAX_LEN on its own), a bare fence, a fence with
\* a language tag and a fence indented by one space.
LineSet ==
  { <<Run(1)>>, <<Run(499)>>, <<Run(3998)>>, <<Run(4001)>>,
    CODE_GUARD, CODE_GUARD \o <<Ch("p"), Ch("y")>>, <<Ch(" ")>> \o CODE_GUARD }

\* str.chars().count()
RECURSIVE chars_count(_)
chars_count(s) == IF s = <<>> THEN 0 ELSE s[1].n + chars_count(Tail(s))

\* str::starts_with / str::strip_prefix
starts_with(s, pre) == Len(s) >= Len(pre) /\ SubSeq(s, 1, Len(pre)) = pre
strip_prefix(s, pre) == SubSeq(s, Len(pre) + 1, Len(s))

\* MessageParserState as built by MessageParser::new
NewState ==
  [ buffer |-> <<>>, text |-> <<>>, is_complete |-> FALSE, lang |-> <<>>,
    is_in_code_block |-> FALSE, chunk_goal_n |-> 1 ]

check_overflow(st, line) ==
  chars_count(st.buffer) + chars_count(line) > MSG_MAX_LEN

get_n_chunks(st) == chars_count(st.buffer) \div MSG_CHUNK_LEN

\* A faulty insert_line: the line terminator is left out.
insert_line_bare(st, line) == [st EXCEPT !.buffer = @ \o line]

insert_line(st, line) == [st EXCEPT !.buffer = @ \o line \o <<NL>>]

finalize(st) ==
  LET s1 == IF st.is_in_code_block THEN insert_line(st, CODE_GUARD) ELSE st
  IN  [s1 EXCEPT !.text = s1.buffer, !.buffer = <<>>, !.is_complete = TRUE]

handle(st, line) ==
  LET is_overflow == check_overflow(st, line)
      s1 == IF is_overflow THEN finalize(st)
                           ELSE [st EXCEPT !.is_complete = FALSE]
      s2 == IF starts_with(line, CODE_GUARD)
              THEN [s1 EXCEPT !.is_in_code_block = ~s1.is_in_code_block,
                              !.lang = IF ~s1.is_in_code_block
                                         THEN strip_prefix(line, CODE_GUARD)
                                         ELSE s1.lang]
              ELSE IF is_overflow /\ s1.is_in_code_block
                     THEN insert_line(s1, CODE_GUARD \o s1.lang)
                     ELSE s1
  IN  insert_line(s2, line)

(***************************************************************************)
(* State of one MessageParser and of its caller.                           *)
(*   state   the parser's MessageParserState                               *)
(*   input   the lines the stream has delivered so far, in order           *)
(*   ret     what the running or last call of next_state returned:         *)
(*           "Pending" inside the loop, "Some", "None" or "Err"            *)
(*   eof     the line stream has reported its end (next_line gave None)    *)
(*   sealed  the texts of the states returned with is_complete = true      *)
(*   emits   one entry per state returned: whether it was returned by the  *)
(*           soft-flush branch (the one that increments chunk_goal_n),     *)
(*           its is_complete, its chunk_goal_n and the character count of  *)
(*           its buffer                                                    *)
(***************************************************************************)
VARIABLES state, input, ret, eof, sealed, emits

pvars == <<state, input, ret, eof, sealed, emits>>

(***************************************************************************)
(*   call    a call of one of the free functions (util::truncate_str,      *)
(*           split_markdown_into_chunks): its arguments and, once it has   *)
(*           run, its outcome                                              *)
(***************************************************************************)
VARIABLES call

fvars == <<call>>

(***************************************************************************)
(* State of the history store and of the tasks handling updates (their     *)
(* actions follow the parser's).                                           *)
(*   task     per task: pc (where it is suspended), kind and chat of its   *)
(*            update, the locals of handle_msg (text, message_id, the      *)
(*            messages handle of its ChatHistory), result (what the        *)
(*            handler returned) and the record of what it did: fragments   *)
(*            pulled, bot calls issued, messages created, character count  *)
(*            of the last text sent, whether a bot call failed and whether *)
(*            the stream yielded an error                                  *)
(*   map      History::messages: chat id -> list (an Arc, named by number) *)
(*   lists    the contents of each list, a sequence of roles               *)
(*   readers  the tasks holding a read guard of the map's RwLock; the      *)
(*            write guard is taken and dropped within one step of get      *)
(*   waitq    the RwLock's FIFO queue of waiting acquirers                 *)
(*   handed   the (chat, list) pairs History::get has returned            *)
(***************************************************************************)
VARIABLES task, map, lists, readers, waitq, handed

bvars == <<task, map, lists, readers, waitq, handed>>
vars == <<pvars, bvars, fvars>>

ParserInit ==
  /\ state = NewState
  /\ input = <<>>
  /\ ret = "Pending"
  /\ eof = FALSE
  /\ sealed = <<>>
  /\ emits = <<>>

\* One iteration of the while loop of next_state: a line arrives, is
\* handled, and the state is returned as a soft flush or as a seal, or the
\* loop goes on.
ReadLine ==
  /\ ret \in {"Pending", "Some"}
  /\ ~eof
  /\ Len(input) < MaxLines
  /\ \E line \in LineSet :
       LET s1 == handle(state, line)
           flush == get_n_chunks(s1) >= s1.chunk_goal_n
           s2 == IF flush THEN [s1 EXCEPT !.chunk_goal_n = @ + 1]
                 ELSE IF s1.is_complete THEN [s1 EXCEPT !.chunk_goal_n = 1]
                 ELSE s1
           returns == flush \/ s1.is_complete
       IN  /\ state' = s2
           /\ input' = Append(input, line)
           /\ ret' = IF returns THEN "Some" ELSE "Pending"
           /\ sealed' = IF returns /\ s2.is_complete
                          THEN Append(sealed, s2.text) ELSE sealed
           /\ emits' = IF returns
                         THEN Append(emits,
                                [flush |-> flush, complete |-> s2.is_complete,
                                 goal |-> s2.chunk_goal_n,
                                 size |-> chars_count(s2.buffer)])
                         ELSE emits
           /\ UNCHANGED <<eof, bvars, fvars>>

\* The stream is exhausted: next_state returns None when the state is
\* complete and performs the final seal otherwise.
EndOfStream ==
  /\ ret \in {"Pending", "Some"}
  /\ IF state.is_complete
       THEN /\ ret' = "None"
            /\ UNCHANGED <<state, sealed, emits>>
       ELSE /\ state' = finalize(state)
            /\ ret' = "Some"
            /\ sealed' = Append(sealed, finalize(state).text)
            /\ emits' = Append(emits,
                          [flush |-> FALSE, complete |-> TRUE,
                           goal |-> state.chunk_goal_n, size |-> 0])
  /\ eof' = TRUE
  /\ UNCHANGED <<input, bvars, fvars>>

\* next_line().await? fails: the error is returned, the state is untouched.
ReadError ==
  /\ ret \in {"Pending", "Some"}
  /\ ~eof
  /\ ret' = "Err"
  /\ UNCHANGED <<state, input, eof, sealed, emits, bvars, fvars>>

ParserNext == ReadLine \/ EndOfStream \/ ReadError
(***************************************************************************)
(* The history store (history.rs) and the update handlers (main.rs).       *)
(*                                                                         *)
(* Tasks are the handler invocations the dispatcher runs concurrently,     *)
(* each for one update of one chat.  A step of a task is the code between  *)
(* two suspension points (.await).                                         *)
(***************************************************************************)
NumTasks == 2
NumChats == 2
MaxFragments == 2

Tasks == 1..NumTasks
Chats == 1..NumChats

\* The fragments the model stream may yield.
Fragments == { <<Run(2500)>> }


IdleTask ==
  [ pc |-> "idle", kind |-> "none", chat |-> 0, text |-> <<>>,
    message_id |-> 0, messages |-> 0, result |-> "none",
    pulled |-> 0, calls |-> 0, created |-> 0, sent |-> 0,
    failed |-> FALSE, stream_err |-> FALSE ]

BotInit ==
  /\ task = [t \in Tasks |-> IdleTask]
  /\ map = <<>>
  /\ lists = <<>>
  /\ readers = {}
  /\ waitq = <<>>
  /\ handed = {}

\* A faulty or_default: HashMap::insert(chat_id, default), which replaces
\* an existing entry.
or_default_replace(m, chat_id, fresh) ==
  [c \in (DOMAIN m) \cup {chat_id} |-> IF c = chat_id THEN fresh ELSE m[c]]

\* HashMap::entry(chat_id).or_default(): a new empty list only when the
\* chat has no entry.
or_default(m, chat_id, fresh) ==
  IF chat_id \in DOMAIN m THEN m ELSE m @@ (chat_id :> fresh)

\* A faulty clear_list: every chat's list is cleared.
clear_list_all(ls, m, chat_id) == [r \in DOMAIN ls |-> <<>>]

\* Vec::clear under the list's Mutex, for the chat's entry if there is one.
clear_list(ls, m, chat_id) ==
  IF chat_id \in DOMAIN m THEN [ls EXCEPT ![m[chat_id]] = <<>>] ELSE ls

\* A push onto the list behind a messages handle (done by the model
\* client while it holds the list's Mutex).
push_turn(ls, ref, role) == [ls EXCEPT ![ref] = Append(@, role)]

\* tokio's RwLock is fair: waiters are served first in, first out.
AtHead(t) == waitq # <<>> /\ waitq[1].t = t
Enqueue(q, t, mode) == Append(q, [t |-> t, mode |-> mode])

\* A faulty drop_guard: the guard is leaked and the lock stays read-locked.
drop_guard_leaked(rs, t) == rs

\* The RwLockReadGuard held in a ChatHistory is dropped.
drop_guard(rs, t) == rs \ {t}

\* The handler returns r: its locals are dropped, the read guard of its
\* ChatHistory among them.
Return(tk, r) == [tk EXCEPT !.pc = "done", !.result = r]

\* A faulty on_call_error: the error is noted and the handler goes on.
on_call_error_ignored(tk) == [tk EXCEPT !.calls = @ + 1, !.failed = TRUE]

\* What a failed bot call (.await?) makes of the task.
on_call_error(tk) == Return([tk EXCEPT !.calls = @ + 1, !.failed = TRUE], "Err")

\* No free function is being called.
NoCall == [fn |-> "none"]

\* A fresh parser, an empty store, idle tasks and no call.
Init == ParserInit /\ BotInit /\ call = NoCall

\* The dispatcher hands an update to a task.  handle_msg starts with the
\* typing action, handle_clear with History::clear, whose first poll
\* queues for the read lock.
Dispatch(t) ==
  /\ task[t].pc = "idle"
  /\ \E k \in {"text", "other", "clear"}, c \in Chats :
       /\ task' = [task EXCEPT ![t] =
            IF k = "other" THEN Return([@ EXCEPT !.kind = k, !.chat = c], "Ok")
            ELSE [@ EXCEPT !.kind = k, !.chat = c,
                           !.pc = IF k = "text" THEN "typing" ELSE "clear_read"]]
       /\ waitq' = IF k = "clear" THEN Enqueue(waitq, t, "r") ELSE waitq
  /\ UNCHANGED <<map, lists, readers, handed, pvars, fvars>>

\* send_chat_action(..).await? ; then History::get starts and queues for
\* the write lock.
Typing(t) ==
  /\ task[t].pc = "typing"
  /\ \/ /\ task' = [task EXCEPT ![t] = [@ EXCEPT !.calls = @ + 1, !.pc = "get_write"]]
        /\ waitq' = Enqueue(waitq, t, "w")
     \/ /\ task' = [task EXCEPT ![t] = on_call_error(@)]
        /\ UNCHANGED waitq
  /\ UNCHANGED <<map, lists, readers, handed, pvars, fvars>>

\* History::get: self.messages.write().await is granted (no guard is
\* out), .entry(chat_id).or_default() runs, the write guard is dropped at
\* the end of the statement and self.messages.read().await queues.  The
\* task does not suspend in between.
GetWrite(t) ==
  /\ task[t].pc = "get_write"
  /\ AtHead(t)
  /\ readers = {}
  /\ LET fresh == Len(lists) + 1
         m == or_default(map, task[t].chat, fresh)
     IN  /\ map' = m
         /\ lists' = IF m = map THEN lists ELSE Append(lists, <<>>)
  /\ waitq' = Enqueue(Tail(waitq), t, "r")
  /\ task' = [task EXCEPT ![t].pc = "get_read"]
  /\ UNCHANGED <<readers, handed, pvars, fvars>>

\* History::get: the read guard is granted, guard.get(&chat_id).unwrap()
\* is cloned and the ChatHistory returned; handle_msg moves its messages
\* into send_chat_messages_with_history_stream, which pushes the user's
\* turn and sends the request.
GetRead(t) ==
  /\ task[t].pc = "get_read"
  /\ AtHead(t)
  /\ waitq' = Tail(waitq)
  /\ readers' = readers \cup {t}
  /\ IF task[t].chat \in DOMAIN map
       THEN /\ task' = [task EXCEPT ![t] =
                 [@ EXCEPT !.messages = map[task[t].chat], !.pc = "request"]]
            /\ handed' = handed \cup {<<task[t].chat, map[task[t].chat]>>}
            /\ lists' = push_turn(lists, map[task[t].chat], "user")
       ELSE /\ task' = [task EXCEPT ![t].pc = "panic"]
            /\ UNCHANGED <<handed, lists>>
  /\ UNCHANGED <<map, pvars, fvars>>

\* send_chat_messages_with_history_stream(..).await? answers.
Request(t) ==
  /\ task[t].pc = "request"
  /\ \/ /\ task' = [task EXCEPT ![t].pc = "first"]
        /\ UNCHANGED readers
     \/ /\ task' = [task EXCEPT ![t] = Return(@, "Err")]
        /\ readers' = drop_guard(readers, t)
  /\ UNCHANGED <<map, lists, waitq, handed, pvars, fvars>>

\* if let Some(Ok(line)) = stream.next().await: the first fragment starts
\* the text and send_message is issued; anything else ends the handler
\* with Ok(()).
First(t) ==
  /\ task[t].pc = "first"
  /\ \/ /\ task[t].pulled < MaxFragments
        /\ \E line \in Fragments :
             task' = [task EXCEPT ![t] =
               [@ EXCEPT !.text = line, !.pulled = @ + 1, !.pc = "send"]]
        /\ UNCHANGED <<readers, lists>>
     \/ /\ task' = [task EXCEPT ![t] = Return([@ EXCEPT !.stream_err = TRUE], "Ok")]
        /\ readers' = drop_guard(readers, t)
        /\ UNCHANGED lists
     \/ /\ task' = [task EXCEPT ![t] = Return(@, "Ok")]
        /\ readers' = drop_guard(readers, t)
        /\ lists' = push_turn(lists, task[t].messages, "assistant")
  /\ UNCHANGED <<map, waitq, handed, pvars, fvars>>

\* bot.send_message(chat, text.clone()).await?.id
Send(t) ==
  /\ task[t].pc = "send"
  /\ \/ /\ task' = [task EXCEPT ![t] =
             [@ EXCEPT !.calls = @ + 1, !.created = @ + 1,
                       !.sent = chars_count(task[t].text),
                       !.message_id = task[t].created + 1, !.pc = "next"]]
        /\ UNCHANGED readers
     \/ /\ task' = [task EXCEPT ![t] =
             on_call_error([@ EXCEPT !.sent = chars_count(task[t].text)])]
        /\ readers' = drop_guard(readers, t)
  /\ UNCHANGED <<map, lists, waitq, handed, pvars, fvars>>

\* while let Some(Ok(line)) = stream.next().await: a further fragment is
\* appended to the text and edit_message_text is issued; anything else
\* ends the loop and the handler returns Ok(()).
NextFragment(t) ==
  /\ task[t].pc = "next"
  /\ \/ /\ task[t].pulled < MaxFragments
        /\ \E line \in Fragments :
             task' = [task EXCEPT ![t] =
               [@ EXCEPT !.text = @ \o line, !.pulled = @ + 1, !.pc = "edit"]]
        /\ UNCHANGED <<readers, lists>>
     \/ /\ task' = [task EXCEPT ![t] = Return([@ EXCEPT !.stream_err = TRUE], "Ok")]
        /\ readers' = drop_guard(readers, t)
        /\ UNCHANGED lists
     \/ /\ task' = [task EXCEPT ![t] = Return(@, "Ok")]
        /\ readers' = drop_guard(readers, t)
        /\ lists' = push_turn(lists, task[t].messages, "assistant")
  /\ UNCHANGED <<map, waitq, handed, pvars, fvars>>

\* bot.edit_message_text(chat, message_id, text.clone()).await?
Edit(t) ==
  /\ task[t].pc = "edit"
  /\ \/ /\ task' = [task EXCEPT ![t] =
             [@ EXCEPT !.calls = @ + 1, !.sent = chars_count(task[t].text),
                       !.pc = "next"]]
        /\ UNCHANGED readers
     \/ /\ task' = [task EXCEPT ![t] =
             on_call_error([@ EXCEPT !.sent = chars_count(task[t].text)])]
        /\ readers' = drop_guard(readers, t)
  /\ UNCHANGED <<map, lists, waitq, handed, pvars, fvars>>

\* History::clear: the read guard is granted, the chat's list, if any, is
\* locked and cleared, and the guard dropped at the end of the if let;
\* handle_clear then issues send_message.
Clear(t) ==
  /\ task[t].pc = "clear_read"
  /\ AtHead(t)
  /\ waitq' = Tail(waitq)
  /\ lists' = clear_list(lists, map, task[t].chat)
  /\ task' = [task EXCEPT ![t].pc = "clear_send"]
  /\ UNCHANGED <<map, readers, handed, pvars, fvars>>

\* handle_clear: bot.send_message(chat, "Context cleared.").await?
ClearSend(t) ==
  /\ task[t].pc = "clear_send"
  /\ \/ task' = [task EXCEPT ![t] = Return([@ EXCEPT !.calls = @ + 1], "Ok")]
     \/ task' = [task EXCEPT ![t] = on_call_error(@)]
  /\ UNCHANGED <<map, lists, readers, waitq, handed, pvars, fvars>>

BotNext ==
  \E t \in Tasks :
    \/ Dispatch(t) \/ Typing(t) \/ GetWrite(t) \/ GetRead(t)
    \/ Request(t) \/ First(t) \/ Send(t) \/ NextFragment(t) \/ Edit(t)
    \/ Clear(t) \/ ClearSend(t)

\* The bot with the parser at rest.
SpecBot == Init /\ [][BotNext]_vars

\* What a task does once it has an update: the runtime polls a task that
\* can go on, the bot calls and the model stream answer in the end.
TaskRun(t) ==
  \/ Typing(t) \/ GetWrite(t) \/ GetRead(t)
  \/ Request(t) \/ First(t) \/ Send(t) \/ NextFragment(t) \/ Edit(t)
  \/ Clear(t) \/ ClearSend(t)

\* The bot under that scheduling: no task that can go on is left aside
\* forever (updates need not keep arriving).
SpecBotFair == SpecBot /\ \A t \in Tasks : WF_vars(TaskRun(t))

\* The parser with no update being handled.
Spec == Init /\ [][ParserNext]_vars

(***************************************************************************)
(* Reading texts back: the vocabulary of the parser's properties.          *)
(***************************************************************************)
ends_with(s, suf) ==
  Len(s) >= Len(suf) /\ SubSeq(s, Len(s) - Len(suf) + 1, Len(s)) = suf

\* str::lines: the text cut at its line terminators.
RECURSIVE SplitFrom(_, _)
SplitFrom(s, cur) ==
  IF s = <<>> THEN (IF cur = <<>> THEN <<>> ELSE <<cur>>)
  ELSE IF s[1] = NL THEN <<cur>> \o SplitFrom(Tail(s), <<>>)
  ELSE SplitFrom(Tail(s), Append(cur, s[1]))
TextLines(s) == SplitFrom(s, <<>>)

\* The lines each followed by a line terminator.
RECURSIVE JoinLines(_)
JoinLines(ls) ==
  IF ls = <<>> THEN <<>> ELSE ls[1] \o <<NL>> \o JoinLines(Tail(ls))

RECURSIVE Concat(_)
Concat(ts) == IF ts = <<>> THEN <<>> ELSE ts[1] \o Concat(Tail(ts))

\* A fence line as handle recognises it.
IsFenceLine(line) == starts_with(line, CODE_GUARD)

RECURSIVE FenceCount(_)
FenceCount(ls) ==
  IF ls = <<>> THEN 0
  ELSE (IF IsFenceLine(ls[1]) THEN 1 ELSE 0) + FenceCount(Tail(ls))

\* Whether a block is open after the lines ls, and the tag of the fence
\* that opened it, read off the input alone.
RECURSIVE FenceScan(_, _)
FenceScan(ls, acc) ==
  IF ls = <<>> THEN acc
  ELSE FenceScan(Tail(ls),
         IF IsFenceLine(ls[1])
           THEN [open |-> ~acc.open,
                 tag |-> IF acc.open THEN acc.tag
                         ELSE strip_prefix(ls[1], CODE_GUARD)]
           ELSE acc)
BlockAfter(ls) == FenceScan(ls, [open |-> FALSE, tag |-> <<>>])

\* out is inp with nothing but fence lines added.
RECURSIVE PlusFences(_, _)
PlusFences(out, inp) ==
  IF out = <<>> THEN inp = <<>>
  ELSE \/ /\ inp # <<>>
          /\ out[1] = inp[1]
          /\ PlusFences(Tail(out), Tail(inp))
       \/ /\ IsFenceLine(out[1])
          /\ PlusFences(Tail(out), inp)

\* The text a returned state hands to its caller.
EmittedText == IF state.is_complete THEN state.text ELSE state.buffer

Front(s) == SubSeq(s, 1, Len(s) - 1)
Last(s) == s[Len(s)]

(***************************************************************************)
(* C1: every state returned by next_state carries at most MSG_MAX_LEN      *)
(* characters (the buffer of a soft flush, the text of a seal), and the    *)
(* buffer never holds more than MSG_MAX_LEN characters after handle.       *)
(***************************************************************************)
C1_EmittedWithinLimit ==
  /\ ret = "Some" => chars_count(EmittedText) <= MSG_MAX_LEN
  /\ chars_count(state.buffer) <= MSG_MAX_LEN

(***************************************************************************)
(* C2: once next_state has returned None, the sealed texts, concatenated   *)
(* in emission order and with the inserted fence lines removed, are the    *)
(* input lines in order, each once.                                        *)
(***************************************************************************)
C2_RoundTrip ==
  ret = "None" => PlusFences(TextLines(Concat(sealed)), input)

(***************************************************************************)
(* C3: every sealed text holds an even number of fence lines.              *)
(***************************************************************************)
C3_SealedClosed ==
  \A k \in 1..Len(sealed) : FenceCount(TextLines(sealed[k])) % 2 = 0

(***************************************************************************)
(* C4: a forced seal on a non-fence line inside an open block leaves a     *)
(* sealed text ending with a closing fence and a buffer made of the        *)
(* reopening fence, with the tag of the fence that opened the block, and   *)
(* the line; and a code block longer than MSG_MAX_LEN comes out as at      *)
(* least two sealed chunks of that shape.                                  *)
(***************************************************************************)
C4_SealShape ==
  ( /\ input # <<>>
    /\ state.is_complete
    /\ state.buffer # <<>>
    /\ ~IsFenceLine(Last(input))
    /\ BlockAfter(Front(input)).open )
  => /\ ends_with(state.text, CODE_GUARD \o <<NL>>)
     /\ state.buffer = CODE_GUARD \o BlockAfter(Front(input)).tag \o <<NL>>
                         \o Last(input) \o <<NL>>

C4_BlockSplit ==
  ( /\ ret = "None"
    /\ input # <<>>
    /\ IsFenceLine(input[1])
    /\ \A i \in 2..(Len(input) - 1) : ~IsFenceLine(input[i])
    /\ chars_count(JoinLines(input)) > MSG_MAX_LEN )
  => \E k \in 1..(Len(sealed) - 1) :
       /\ ends_with(sealed[k], CODE_GUARD \o <<NL>>)
       /\ starts_with(sealed[k + 1],
                      CODE_GUARD \o strip_prefix(input[1], CODE_GUARD) \o <<NL>>)

C4_BlockSplitAcrossSeal == C4_SealShape /\ C4_BlockSplit
(***************************************************************************)
(* C5: when the fragment stream yields an error, handle_msg returns that   *)
(* error (and issues no further bot call).                                 *)
(***************************************************************************)
C5_StreamErrorReturned ==
  \A t \in Tasks :
    task[t].stream_err => task[t].pc = "done" /\ task[t].result = "Err"

(***************************************************************************)
(* C6: a failed bot call ends the handler at once with the error: the task *)
(* is done with Err as soon as the call has failed, and from then on it    *)
(* pulls no fragment and issues no call (no retry either).                 *)
(***************************************************************************)
C6_FailedIsDone ==
  \A t \in Tasks :
    task[t].failed => task[t].pc = "done" /\ task[t].result = "Err"

C6_NothingAfterFailure ==
  \A t \in Tasks :
    task[t].failed => /\ task'[t].pulled = task[t].pulled
                      /\ task'[t].calls = task[t].calls
                      /\ task'[t].created = task[t].created

C6_TransportErrorAborts == [](C6_FailedIsDone) /\ [][C6_NothingAfterFailure]_vars

\* A send_message or edit_message_text of a turn has failed.
C6_Witness ==
  \E t \in Tasks :
    task[t].kind = "text" /\ task[t].failed /\ task[t].pulled = 2

(***************************************************************************)
(* C7: no send or edit carries more than the text of one sealed chunk      *)
(* (at most MSG_MAX_LEN characters), and a response longer than            *)
(* MSG_MAX_LEN is delivered as several created messages.                   *)
(***************************************************************************)
C7_SplitIntoMessages ==
  \A t \in Tasks :
    /\ task[t].sent <= MSG_MAX_LEN
    /\ ( /\ task[t].pc = "done"
         /\ task[t].result = "Ok"
         /\ chars_count(task[t].text) > MSG_MAX_LEN ) => task[t].created >= 2

(***************************************************************************)
(* C8: a get or clear for one chat never waits for the turn of another     *)
(* chat: a waiter that cannot be served before the read guards now out     *)
(* are dropped (a writer, or a waiter queued behind one) waits only for    *)
(* guards held by turns of its own chat.                                   *)
(***************************************************************************)
WriterAhead(i) == \E j \in 1..i : waitq[j].mode = "w"

C8_NoCrossChatBlocking ==
  \A i \in 1..Len(waitq), u \in readers :
    WriterAhead(i) => task[u].chat = task[waitq[i].t].chat

(***************************************************************************)
(* C9: get creates an empty list on first access and returns the existing  *)
(* one afterwards: an entry of the map is never removed or replaced, the   *)
(* lookup at the end of get never fails, and all handles returned for a    *)
(* chat are the list the map holds for it.                                 *)
(***************************************************************************)
C9_LookupAndHandles ==
  /\ \A t \in Tasks : task[t].pc # "panic"
  /\ \A h \in handed : h[1] \in DOMAIN map /\ map[h[1]] = h[2]
  /\ \A t \in Tasks :
       task[t].messages # 0 => task[t].messages = map[task[t].chat]

C9_EntriesKept ==
  /\ \A c \in DOMAIN map : c \in DOMAIN map' /\ map'[c] = map[c]
  /\ \A c \in (DOMAIN map') \ (DOMAIN map) : lists'[map'[c]] = <<>>

C9_GetOrCreate == [](C9_LookupAndHandles) /\ [][C9_EntriesKept]_vars

\* Two gets for the same chat have returned a handle.
C9_Witness ==
  \E t, u \in Tasks :
    /\ t # u
    /\ task[t].chat = task[u].chat
    /\ task[t].messages # 0
    /\ task[u].messages # 0

(***************************************************************************)
(* C10: the step of clear leaves the chat's list empty, creates no entry   *)
(* (also for a chat never accessed) and changes no other list.             *)
(***************************************************************************)
C10_ClearStep ==
  \A t \in Tasks :
    (task[t].pc = "clear_read" /\ task'[t].pc = "clear_send") =>
      LET c == task[t].chat
      IN  /\ map' = map
          /\ DOMAIN lists' = DOMAIN lists
          /\ c \in DOMAIN map => lists'[map[c]] = <<>>
          /\ \A r \in DOMAIN lists :
               (c \notin DOMAIN map \/ r # map[c]) => lists'[r] = lists[r]

C10_ClearEmpties == [][C10_ClearStep]_vars

\* A clear has run on a chat whose turn had finished, and the list is
\* empty: it held turns and the clear removed them.
C10_Witness ==
  \E t, u \in Tasks :
    /\ task[t].kind = "clear"
    /\ task[t].pc \in {"clear_send", "done"}
    /\ task[u].kind = "text"
    /\ task[u].chat = task[t].chat
    /\ task[u].result = "Ok"
    /\ task[u].messages # 0
    /\ lists[task[u].messages] = <<>>
(***************************************************************************)
(* C12: at the end of the stream next_state returns None only when         *)
(* nothing is buffered: lines still in the buffer are sealed first.        *)
(***************************************************************************)
C12_NoneOnlyWhenEmpty == ret = "None" => state.buffer = <<>>

(***************************************************************************)
(* C13: chunk_goal_n is at least 1, and it is 1 in every state returned    *)
(* with a seal made by the line just handled (its buffer then holds that   *)
(* line; the final seal leaves the buffer empty).                          *)
(***************************************************************************)
C13_GoalResetOnSeal ==
  /\ state.chunk_goal_n >= 1
  /\ \A k \in 1..Len(emits) :
       (emits[k].complete /\ emits[k].size > 0) => emits[k].goal = 1

(***************************************************************************)
(* C14: a state is returned by the soft-flush branch only when the buffer  *)
(* holds at least goal x MSG_CHUNK_LEN characters for the goal before the  *)
(* increment, and from one such return to the next, with no reset in       *)
(* between, the buffer does not shrink and the goal grows.                 *)
(***************************************************************************)
C14_FlushesGrow ==
  \A j \in 1..Len(emits) :
    emits[j].flush =>
      /\ emits[j].size >= (emits[j].goal - 1) * MSG_CHUNK_LEN
      /\ (j > 1 /\ emits[j - 1].flush) =>
           /\ emits[j - 1].size <= emits[j].size
           /\ emits[j - 1].goal < emits[j].goal

(***************************************************************************)
(* C15: handle seals exactly when buffer + line + line terminator exceed   *)
(* MSG_MAX_LEN; the sealed text is then what was buffered before the line  *)
(* (with the closing fence of an open block), and otherwise the line is    *)
(* appended to the same buffer with is_complete false.                     *)
(***************************************************************************)
C15_Step ==
  input' # input =>
    LET line == Last(input')
        over == chars_count(state.buffer) + chars_count(line) + 1 > MSG_MAX_LEN
    IN  /\ state'.is_complete <=> over
        /\ state'.is_complete =>
             state'.text \in {state.buffer, state.buffer \o CODE_GUARD \o <<NL>>}
        /\ ~state'.is_complete =>
             state'.buffer = state.buffer \o line \o <<NL>>

C15_SealExactlyOnOverflow == [][C15_Step]_vars

(***************************************************************************)
(* C16: handle flips is_in_code_block exactly on the lines that, trimmed,  *)
(* start with the fence marker; the tag is captured when the flip opens a  *)
(* block, and any other line leaves flag and tag alone.                    *)
(***************************************************************************)
RECURSIVE trim_start(_)
trim_start(s) ==
  IF s # <<>> /\ s[1] = Ch(" ") THEN trim_start(Tail(s)) ELSE s

RECURSIVE trim_end(_)
trim_end(s) ==
  IF s # <<>> /\ Last(s) = Ch(" ") THEN trim_end(Front(s)) ELSE s

\* str::trim
trim(s) == trim_end(trim_start(s))

C16_Step ==
  input' # input =>
    LET line == trim(Last(input'))
        flipped == state'.is_in_code_block # state.is_in_code_block
    IN  /\ flipped <=> starts_with(line, CODE_GUARD)
        /\ (flipped /\ state'.is_in_code_block) =>
             state'.lang = strip_prefix(line, CODE_GUARD)
        /\ ~flipped => state'.lang = state.lang

C16_FlipOnTrimmedFence == [][C16_Step]_vars

(***************************************************************************)
(* C17: every line goes into the buffer followed by a line terminator,     *)
(* and an input that stays below MSG_CHUNK_LEN is returned as exactly one  *)
(* state, the final seal.                                                  *)
(***************************************************************************)
SmallInputDone ==
  eof /\ chars_count(JoinLines(input)) < MSG_CHUNK_LEN

\* The lines joined by single line terminators, none after the last.
RECURSIVE JoinBare(_)
JoinBare(ls) ==
  IF ls = <<>> THEN <<>>
  ELSE IF Len(ls) = 1 THEN ls[1]
  ELSE ls[1] \o <<NL>> \o JoinBare(Tail(ls))

C18_SealedNonEmpty == \A k \in 1..Len(sealed) : sealed[k] # <<>>
(***************************************************************************)
(* C19: every get and every clear that has started returns in the end: a   *)
(* task waiting for the map's lock (for writing or for reading) gets it.   *)
(***************************************************************************)
InHistoryCall(t) == task[t].pc \in {"get_write", "get_read", "clear_read"}

C19_HistoryCallsReturn ==
  \A t \in Tasks : InHistoryCall(t) ~> ~InHistoryCall(t)

\* A get waits for the write lock while a turn holds its read guard.
C19_Witness ==
  \E t \in Tasks :
    task[t].pc = "get_write" /\ AtHead(t) /\ readers # {}
(***************************************************************************)
(* util.rs: truncate_str.  A &str is its UTF-8 bytes: a byte is the        *)
(* character it belongs to and its position k in that character's          *)
(* encoding, so that a slice that ends inside a character shows.           *)
(***************************************************************************)
MaxChars == 3
MaxN == 4

\* One character per encoded width, and the ellipsis the function appends.
ELLIPSIS == "U+2026"
CharSet == { "a", "U+00E9", "U+304A" }

len_utf8(c) ==
  CASE c = "a" -> 1
    [] c = "U+00E9" -> 2
    [] OTHER -> 3

RECURSIVE encode_utf8(_)
encode_utf8(cs) ==
  IF cs = <<>> THEN <<>>
  ELSE [k \in 1..len_utf8(Head(cs)) |-> [ch |-> Head(cs), k |-> k]]
         \o encode_utf8(Tail(cs))

\* The strings the function is applied to, as character sequences.
RECURSIVE CharSeqs(_)
CharSeqs(n) ==
  IF n = 0 THEN { <<>> }
  ELSE LET shorter == CharSeqs(n - 1)
       IN  shorter \cup { Append(cs, c) : cs \in shorter, c \in CharSet }

\* s.char_indices(): every character with the byte offset it starts at.
char_indices(s) ==
  LET starts == { j \in 1..Len(s) : s[j].k = 1 }
      at(m) == CHOOSE j \in starts :
                 Cardinality({ x \in starts : x < j }) = m - 1
  IN  [m \in 1..Cardinality(starts) |-> [i |-> at(m) - 1, c |-> s[at(m)].ch]]

\* Iterator::nth(k) and Iterator::next() on what is left of an iterator:
\* the item (an Option, as a sequence of at most one) and the rest.
iter_nth(it, k) ==
  IF Len(it) > k
    THEN [item |-> <<it[k + 1]>>, rest |-> SubSeq(it, k + 2, Len(it))]
    ELSE [item |-> <<>>, rest |-> <<>>]

iter_next(it) == iter_nth(it, 0)

is_char_boundary(s, i) ==
  \/ i = 0
  \/ i = Len(s)
  \/ i < Len(s) /\ s[i + 1].k = 1

\* &s[..i] followed by the ellipsis; slicing off a boundary panics.
format_cut(s, i) ==
  IF is_char_boundary(s, i)
    THEN [panic |-> FALSE, str |-> SubSeq(s, 1, i) \o encode_utf8(<<ELLIPSIS>>)]
    ELSE [panic |-> TRUE, str |-> <<>>]

\* A faulty truncate_str that does not look one character ahead: a string
\* of exactly max_n characters loses its last one.
truncate_str_no_lookahead(s, max_n) ==
  IF max_n = 0 THEN [panic |-> FALSE, str |-> <<>>]
  ELSE LET n == iter_nth(char_indices(s), max_n - 1)
       IN  IF n.item # <<>> THEN format_cut(s, n.item[1].i)
           ELSE [panic |-> FALSE, str |-> s]

truncate_str(s, max_n) ==
  IF max_n = 0 THEN [panic |-> FALSE, str |-> <<>>]
  ELSE LET n == iter_nth(char_indices(s), max_n - 1)
           n_next == iter_next(n.rest)
       IN  IF n.item # <<>> /\ n_next.item # <<>>
             THEN format_cut(s, n.item[1].i)
             ELSE [panic |-> FALSE, str |-> s]

\* A call of truncate_str with one of the bounded inputs, not yet run.
InitTrunc ==
  /\ ParserInit
  /\ BotInit
  /\ call \in { [fn |-> "truncate_str", chars |-> cs, s |-> encode_utf8(cs),
                 max_n |-> n, done |-> FALSE,
                 out |-> [panic |-> FALSE, str |-> <<>>]] :
                cs \in CharSeqs(MaxChars), n \in 0..MaxN }

TruncateStr ==
  /\ call.fn = "truncate_str"
  /\ ~call.done
  /\ call' = [call EXCEPT !.done = TRUE,
                          !.out = truncate_str(call.s, call.max_n)]
  /\ UNCHANGED <<pvars, bvars>>

SpecTrunc == InitTrunc /\ [][TruncateStr]_vars

(***************************************************************************)
(* C11: truncate_str(s, n) is empty for n = 0, is s when s has at most n   *)
(* characters, and is otherwise the first n-1 characters of s and the      *)
(* ellipsis: n characters, every one encoded whole.                        *)
(***************************************************************************)
\* The bytes are whole characters one after another.
WellFormed(b) ==
  \A j \in 1..Len(b) :
    /\ b[j].k <= len_utf8(b[j].ch)
    /\ b[j].k > 1 => j > 1 /\ b[j - 1].ch = b[j].ch /\ b[j - 1].k = b[j].k - 1
    /\ b[j].k < len_utf8(b[j].ch) =>
         j < Len(b) /\ b[j + 1].ch = b[j].ch /\ b[j + 1].k = b[j].k + 1

C11_TruncateStr ==
  (call.fn = "truncate_str" /\ call.done) =>
    LET n == call.max_n
        cs == call.chars
        out == call.out
    IN  /\ ~out.panic
        /\ n = 0 => out.str = <<>>
        /\ (n > 0 /\ Len(cs) <= n) => out.str = call.s
        /\ (n > 0 /\ Len(cs) > n) =>
             /\ out.str = encode_utf8(SubSeq(cs, 1, n - 1) \o <<ELLIPSIS>>)
             /\ Len(char_indices(out.str)) = n
             /\ WellFormed(out.str)

\* A string of three characters cut to two, between multi-byte characters.
C11_Witness ==
  /\ call.fn = "truncate_str"
  /\ call.done
  /\ call.max_n = 2
  /\ call.chars = <<"U+304A", "U+00E9", "U+304A">>
  /\ call.out.str = encode_utf8(<<"U+304A", ELLIPSIS>>)
(***************************************************************************)
(* main.rs: split_markdown_into_chunks.  The inputs are ASCII, one atom    *)
(* per character, so that len() and the byte slices [3..] count atoms.     *)
(***************************************************************************)
MaxMdLines == 3
MaxChunkSize == 16

\* The lines of the markdown inputs: a line shorter than a fence marker,
\* two six-character lines, a bare fence and a fence with a language tag.
MdLineSet ==
  { <<Ch("a"), Ch("b")>>,
    <<Ch("a"), Ch("b"), Ch("c"), Ch("d"), Ch("e"), Ch("f")>>,
    <<Ch("g"), Ch("h"), Ch("i"), Ch("j"), Ch("k"), Ch("l")>>,
    CODE_GUARD,
    CODE_GUARD \o <<Ch("p"), Ch("y")>> }

RECURSIVE MdLineSeqs(_)
MdLineSeqs(n) ==
  IF n = 0 THEN { <<>> }
  ELSE LET shorter == MdLineSeqs(n - 1)
       IN  shorter \cup { Append(ls, l) : ls \in shorter, l \in MdLineSet }

\* &s[from..]; a start beyond the end panics.
slice_from(s, from) ==
  IF from <= Len(s)
    THEN [panic |-> FALSE, str |-> SubSeq(s, from + 1, Len(s))]
    ELSE [panic |-> TRUE, str |-> <<>>]

\* One turn of the while loop for the line popped from the front, rest
\* being the lines still queued.  max_chunk_size - current_chunk.len() is a
\* usize subtraction: below zero it panics when the build checks overflow
\* and wraps otherwise, to a value of at least 2^64 minus the length of
\* the chunk, which is above 5.
split_line(acc, line, rest, max_chunk_size, overflow_checks) ==
  LET trimmed == trim(line)
      is_code_fence == starts_with(trimmed, CODE_GUARD)
      in_code_block ==
        IF is_code_fence THEN ~acc.in_code_block ELSE acc.in_code_block
      line_with_newline == IF rest = <<>> THEN line ELSE line \o <<NL>>
      potential_new_size == Len(acc.current_chunk) + Len(line_with_newline)
      at_line == [acc EXCEPT !.in_code_block = in_code_block,
                             !.chunks = Append(@, acc.current_chunk),
                             !.current_chunk = line_with_newline]
      underflow == max_chunk_size < Len(acc.current_chunk)
      remaining_capacity == max_chunk_size - Len(acc.current_chunk)
      lang == slice_from(trimmed, 3)
      remaining_line == IF Len(line) > 3 THEN slice_from(line, 3).str ELSE <<>>
  IN  IF potential_new_size <= max_chunk_size
        THEN [acc EXCEPT !.in_code_block = in_code_block,
                         !.current_chunk = @ \o line_with_newline]
      ELSE IF in_code_block /\ is_code_fence THEN at_line
      ELSE IF in_code_block
        THEN IF underflow /\ overflow_checks
               THEN [acc EXCEPT !.panic = TRUE]
             ELSE IF underflow \/ remaining_capacity >= 5
               THEN IF lang.panic THEN [acc EXCEPT !.panic = TRUE]
                    ELSE [acc EXCEPT
                           !.in_code_block = in_code_block,
                           !.chunks =
                             Append(@, acc.current_chunk \o CODE_GUARD \o <<NL>>),
                           !.current_chunk =
                             CODE_GUARD \o lang.str \o <<NL>>
                               \o (IF remaining_line = <<>> THEN <<>>
                                   ELSE remaining_line
                                          \o (IF rest = <<>> THEN <<>>
                                              ELSE <<NL>>))]
             ELSE at_line
      ELSE at_line

RECURSIVE split_loop(_, _, _, _)
split_loop(lines, acc, max_chunk_size, overflow_checks) ==
  IF lines = <<>> \/ acc.panic THEN acc
  ELSE split_loop(Tail(lines),
                  split_line(acc, Head(lines), Tail(lines), max_chunk_size,
                             overflow_checks),
                  max_chunk_size, overflow_checks)

\* The chunks returned, or a panic.
split_markdown_into_chunks(markdown, max_chunk_size, overflow_checks) ==
  LET fin == split_loop(TextLines(markdown),
                        [chunks |-> <<>>, current_chunk |-> <<>>,
                         in_code_block |-> FALSE, panic |-> FALSE],
                        max_chunk_size, overflow_checks)
  IN  IF fin.panic THEN [panic |-> TRUE, chunks |-> <<>>]
      ELSE [panic |-> FALSE,
            chunks |-> IF fin.current_chunk # <<>>
                         THEN Append(fin.chunks, fin.current_chunk)
                         ELSE fin.chunks]

\* A call of split_markdown_into_chunks with one of the bounded inputs, in
\* a build with or without overflow checks, not yet run.
InitSplit ==
  /\ ParserInit
  /\ BotInit
  /\ call \in { [fn |-> "split_markdown_into_chunks",
                 markdown |-> JoinBare(ls), max_chunk_size |-> m,
                 overflow_checks |-> oc, done |-> FALSE,
                 out |-> [panic |-> FALSE, chunks |-> <<>>]] :
                ls \in MdLineSeqs(MaxMdLines), m \in 1..MaxChunkSize,
                oc \in BOOLEAN }

SplitMarkdown ==
  /\ call.fn = "split_markdown_into_chunks"
  /\ ~call.done
  /\ call' = [call EXCEPT
                !.done = TRUE,
                !.out = split_markdown_into_chunks(call.markdown,
                          call.max_chunk_size, call.overflow_checks)]
  /\ UNCHANGED <<pvars, bvars>>

SpecSplit == InitSplit /\ [][SplitMarkdown]_vars

\* The lines of the chunks, one chunk after the other.
RECURSIVE ChunkLines(_)
ChunkLines(chunks) ==
  IF chunks = <<>> THEN <<>>
  ELSE TextLines(chunks[1]) \o ChunkLines(Tail(chunks))

(***************************************************************************)
(* C20: split_markdown_into_chunks returns chunks whose lines, the fence   *)
(* lines added at split points left out, are the lines of the input in     *)
(* order.                                                                  *)
(***************************************************************************)
C20_LinesPreserved ==
  (call.fn = "split_markdown_into_chunks" /\ call.done) =>
    /\ ~call.out.panic
    /\ PlusFences(ChunkLines(call.out.chunks), TextLines(call.markdown))
====
